---- MODULE Spec2Model ----
(***************************************************************************)
(* Model of weather-go (main.go): an HTTP server with the routes /hello    *)
(* and /weather/<city>.  A /weather request reads .apiConfig, issues one   *)
(* GET to the upstream weather API, decodes the JSON answer into           *)
(* weatherData and re-encodes it for the client.                           *)
(*                                                                         *)
(* Text that the code takes apart or concatenates (the request path, the   *)
(* city, the API key, the outbound URL) is a sequence of one-character     *)
(* strings.  A JSON document is its parse: an object is the sequence of    *)
(* its key/value pairs in document order, so that duplicate and            *)
(* case-variant keys are decoded in the order encoding/json meets them.    *)
(* Temperatures are integers; float formatting is not modelled.            *)
(***************************************************************************)
EXTENDS Integers, Sequences, FiniteSets, TLC

\* Number of handler invocations that may be in flight at the same time.
NumReq == 2

Req == 1..NumReq

----------------------------------------------------------------------------
(* JSON values *)

JNull == [t |-> "null", s |-> <<>>, n |-> 0, kv |-> <<>>]
JStr(s) == [t |-> "string", s |-> s, n |-> 0, kv |-> <<>>]
JNum(n) == [t |-> "number", s |-> <<>>, n |-> n, kv |-> <<>>]
JObj(kv) == [t |-> "object", s |-> <<>>, n |-> 0, kv |-> kv]

\* A byte stream: valid = FALSE is text that is not JSON at all.
Doc(v) == [valid |-> TRUE, v |-> v]
NotJson == [valid |-> FALSE, v |-> JNull]

----------------------------------------------------------------------------
(* Errors *)

NoErr == [kind |-> "nil", msg |-> ""]
PathError == [kind |-> "PathError", msg |-> "open .apiConfig: no such file or directory"]
SyntaxError == [kind |-> "SyntaxError", msg |-> "invalid character '<' looking for beginning of value"]
UrlError == [kind |-> "UrlError", msg |-> "Get: dial tcp: connection refused"]
UnmarshalTypeError(value, field) ==
  [kind |-> "UnmarshalTypeError",
   msg |-> "json: cannot unmarshal " \o value \o " into Go struct field " \o field]

----------------------------------------------------------------------------
(* encoding/json: matching of object keys to struct fields *)

\* Case folding of the object keys that occur in the documents below.
foldName(k) ==
  CASE k = "Name" -> "name"
    [] k = "Temp" -> "temp"
    [] k = "Main" -> "main"
    [] k = "openweathermapapikey" -> "OpenWeatherMapApiKey"
    [] OTHER -> k

\* The field a key is decoded into: the exact tag, else a tag equal under
\* case folding, else none ("").
matchField(key, tags) ==
  IF key \in tags THEN key
  ELSE IF \E f \in tags : foldName(f) = foldName(key)
       THEN CHOOSE f \in tags : foldName(f) = foldName(key)
       ELSE ""

\* The decoder keeps the first type error and goes on decoding.
saveError(acc, e) == IF acc.err = NoErr THEN [acc EXCEPT !.err = e] ELSE acc

----------------------------------------------------------------------------
(* apiConfig and loadApiConfig *)

ZeroApiConfig == [OpenWeatherMapApiKey |-> <<>>]

RECURSIVE apiConfigObject(_, _, _)
apiConfigObject(kv, i, acc) ==
  IF i > Len(kv) THEN acc
  ELSE LET v == kv[i][2]
           f == matchField(kv[i][1], {"OpenWeatherMapApiKey"})
       IN apiConfigObject(kv, i + 1,
            IF f # "OpenWeatherMapApiKey" \/ v.t = "null" THEN acc
            ELSE IF v.t = "string" THEN [acc EXCEPT !.c.OpenWeatherMapApiKey = v.s]
            ELSE saveError(acc, UnmarshalTypeError(v.t, "apiConfig.OpenWeatherMapApiKey of type string")))

\* json.Unmarshal(bytes, &c) for c of type apiConfig.
UnmarshalApiConfig(bytes) ==
  LET zero == [c |-> ZeroApiConfig, err |-> NoErr]
  IN IF ~bytes.valid THEN [zero EXCEPT !.err = SyntaxError]
     ELSE IF bytes.v.t = "null" THEN zero
     ELSE IF bytes.v.t # "object"
          THEN [zero EXCEPT !.err = UnmarshalTypeError(bytes.v.t, "value of type main.apiConfig")]
     ELSE apiConfigObject(bytes.v.kv, 1, zero)

\* The file system: the file is absent or holds some bytes.
Missing == [exists |-> FALSE, bytes |-> NotJson]
File(bytes) == [exists |-> TRUE, bytes |-> bytes]

\* A variant of loadApiConfig that does not look at the error of os.ReadFile
\* and unmarshals the empty result.
loadApiConfigUnchecked(f) ==
  IF ~f.exists THEN [c |-> ZeroApiConfig, err |-> NoErr]
  ELSE LET u == UnmarshalApiConfig(f.bytes)
       IN IF u.err # NoErr THEN [c |-> ZeroApiConfig, err |-> u.err]
          ELSE [c |-> u.c, err |-> NoErr]

\* loadApiConfig(filename) on a file system where filename is the file f.
loadApiConfig(f) ==
  IF ~f.exists THEN [c |-> ZeroApiConfig, err |-> PathError]
  ELSE LET u == UnmarshalApiConfig(f.bytes)
       IN IF u.err # NoErr THEN [c |-> ZeroApiConfig, err |-> u.err]
          ELSE [c |-> u.c, err |-> NoErr]

----------------------------------------------------------------------------
(* weatherData, its decoding and encoding *)

ZeroWeatherData == [Name |-> <<>>, Main |-> [Kelvin |-> 0]]

RECURSIVE mainObject(_, _, _)
mainObject(kv, i, acc) ==
  IF i > Len(kv) THEN acc
  ELSE LET v == kv[i][2]
           f == matchField(kv[i][1], {"temp"})
       IN mainObject(kv, i + 1,
            IF f # "temp" \/ v.t = "null" THEN acc
            ELSE IF v.t = "number" THEN [acc EXCEPT !.d.Main.Kelvin = v.n]
            ELSE saveError(acc, UnmarshalTypeError(v.t, "weatherData.main.temp of type float64")))

RECURSIVE weatherObject(_, _, _)
weatherObject(kv, i, acc) ==
  IF i > Len(kv) THEN acc
  ELSE LET v == kv[i][2]
           f == matchField(kv[i][1], {"name", "main"})
       IN weatherObject(kv, i + 1,
            IF f = "" \/ v.t = "null" THEN acc
            ELSE IF f = "name"
                 THEN IF v.t = "string" THEN [acc EXCEPT !.d.Name = v.s]
                      ELSE saveError(acc, UnmarshalTypeError(v.t, "weatherData.name of type string"))
            ELSE IF v.t = "object" THEN mainObject(v.kv, 1, acc)
                 ELSE saveError(acc, UnmarshalTypeError(v.t, "weatherData.main of type struct")))

\* json.NewDecoder(resp.Body).Decode(&d) for a fresh d of type weatherData.
Decode(body) ==
  LET zero == [d |-> ZeroWeatherData, err |-> NoErr]
  IN IF ~body.valid THEN [zero EXCEPT !.err = SyntaxError]
     ELSE IF body.v.t = "null" THEN zero
     ELSE IF body.v.t # "object"
          THEN [zero EXCEPT !.err = UnmarshalTypeError(body.v.t, "value of type main.weatherData")]
     ELSE weatherObject(body.v.kv, 1, zero)

\* json.NewEncoder(w).Encode(data): the struct tags name the keys.
Encode(d) ==
  JObj(<< <<"name", JStr(d.Name)>>,
          <<"main", JObj(<< <<"temp", JNum(d.Main.Kelvin)>> >>)>> >>)

----------------------------------------------------------------------------
(* strings.SplitN *)

Index(s, sep) ==
  IF \E i \in 1..Len(s) : s[i] = sep
  THEN CHOOSE i \in 1..Len(s) : s[i] = sep /\ \A j \in 1..(i - 1) : s[j] # sep
  ELSE 0

RECURSIVE genSplit(_, _, _)
genSplit(s, sep, n) ==
  IF n = 1 \/ Index(s, sep) = 0 THEN <<s>>
  ELSE LET i == Index(s, sep)
       IN <<SubSeq(s, 1, i - 1)>> \o genSplit(SubSeq(s, i + 1, Len(s)), sep, n - 1)

\* A variant of SplitN that splits at every separator, as strings.Split does.
SplitAll(s, sep, n) == genSplit(s, sep, -1)

\* strings.SplitN(s, sep, n) for a one-character sep.
SplitN(s, sep, n) == IF n = 0 THEN <<>> ELSE genSplit(s, sep, n)

----------------------------------------------------------------------------
(* Inputs: request paths, contents of .apiConfig, upstream answers *)

WeatherPrefix == <<"/", "w", "e", "a", "t", "h", "e", "r", "/">>
HelloPath == <<"/", "h", "e", "l", "l", "o">>

\* City segments of canonical request paths, the empty one included.
Cities == { <<>>, <<"a">>, <<"a", "/", "b">> }
WeatherPaths == { WeatherPrefix \o c : c \in Cities }

GoodKey == <<"k">>
London == <<"L", "o", "n", "d", "o", "n">>
Paris == <<"P", "a", "r", "i", "s">>
InvalidKeyMessage == <<"I", "n", "v", "a", "l", "i", "d", " ", "A", "P", "I", " ", "k", "e", "y">>

\* {"OpenWeatherMapApiKey":"k"}, {"OpenWeatherMapApiKey":""}, {} and an HTML page.
ConfigFiles ==
  { Missing,
    File(Doc(JObj(<< <<"OpenWeatherMapApiKey", JStr(GoodKey)>> >>))),
    File(Doc(JObj(<< <<"OpenWeatherMapApiKey", JStr(<<>>)>> >>))),
    File(Doc(JObj(<<>>))),
    File(NotJson) }

\* {"name":"London","main":{"temp":288,"humidity":81},"cod":200}
WeatherBody ==
  Doc(JObj(<< <<"name", JStr(London)>>,
              <<"main", JObj(<< <<"temp", JNum(288)>>, <<"humidity", JNum(81)>> >>)>>,
              <<"cod", JNum(200)>> >>))
\* {"name":"London","main":{"temp":288},"Name":"Paris"}
FoldedKeyBody ==
  Doc(JObj(<< <<"name", JStr(London)>>,
              <<"main", JObj(<< <<"temp", JNum(288)>> >>)>>,
              <<"Name", JStr(Paris)>> >>))
\* {"cod":401,"message":"Invalid API key"}
UnauthorizedBody ==
  Doc(JObj(<< <<"cod", JNum(401)>>, <<"message", JStr(InvalidKeyMessage)>> >>))
\* {"name":5,"main":{"temp":288}}
WrongTypeBody ==
  Doc(JObj(<< <<"name", JNum(5)>>, <<"main", JObj(<< <<"temp", JNum(288)>> >>)>> >>))

\* What the upstream may answer once the transport succeeded.
Replies ==
  { [status |-> 200, body |-> WeatherBody],
    [status |-> 200, body |-> FoldedKeyBody],
    [status |-> 401, body |-> UnauthorizedBody],
    [status |-> 200, body |-> WrongTypeBody],
    [status |-> 502, body |-> NotJson] }

----------------------------------------------------------------------------
(* State *)

VARIABLES
  file,       \* the file .apiConfig
  pc,         \* pc[r]: where handler invocation r stands
  path,       \* r.URL.Path
  city,       \* the argument of query
  fileRead,   \* what os.ReadFile returned, one entry per read of this invocation
  apiConfig,  \* the local apiConfig of query
  urls,       \* the URLs passed to http.Get, one entry per call of this invocation
  resp,       \* the upstream response; open: its Body is not closed yet
  data,       \* what query returned to the handler
  err,
  w           \* what was written to the http.ResponseWriter

vars == <<file, pc, path, city, fileRead, apiConfig, urls, resp, data, err, w>>

NoResp == [status |-> 0, body |-> NotJson, open |-> FALSE]
NoReply == [status |-> 0, ctype |-> "", text |-> "", json |-> JNull]

TextPlain == "text/plain; charset=utf-8"
ApplicationJson == "application/json; charset=utf-8"

StatusOK == 200
StatusBadRequest == 400
StatusInternalServerError == 500

\* http.Error(w, msg, code)
HttpError(msg, code) ==
  [status |-> code, ctype |-> TextPlain, text |-> msg \o "\n", json |-> JNull]

Init ==
  /\ file \in ConfigFiles
  /\ pc = [r \in Req |-> "idle"]
  /\ path = [r \in Req |-> <<>>]
  /\ city = [r \in Req |-> <<>>]
  /\ fileRead = [r \in Req |-> <<>>]
  /\ apiConfig = [r \in Req |-> ZeroApiConfig]
  /\ urls = [r \in Req |-> <<>>]
  /\ resp = [r \in Req |-> NoResp]
  /\ data = [r \in Req |-> ZeroWeatherData]
  /\ err = [r \in Req |-> NoErr]
  /\ w = [r \in Req |-> NoReply]

----------------------------------------------------------------------------
(* Operations *)

\* The route /hello.
Hello(r) ==
  /\ pc[r] = "idle"
  /\ path' = [path EXCEPT ![r] = HelloPath]
  /\ w' = [w EXCEPT ![r] = [status |-> StatusOK, ctype |-> TextPlain,
                            text |-> "Hello, World!\n", json |-> JNull]]
  /\ pc' = [pc EXCEPT ![r] = "done"]
  /\ UNCHANGED <<file, city, fileRead, apiConfig, urls, resp, data, err>>

\* The route /weather/: the handler up to the call of query.
WeatherHandler(r) ==
  /\ pc[r] = "idle"
  /\ \E p \in WeatherPaths :
       LET parts == SplitN(p, "/", 3)
       IN /\ path' = [path EXCEPT ![r] = p]
          /\ IF Len(parts) < 3 \/ parts[3] = <<>>
             THEN /\ w' = [w EXCEPT ![r] = HttpError("City name not provided", StatusBadRequest)]
                  /\ pc' = [pc EXCEPT ![r] = "done"]
                  /\ UNCHANGED city
             ELSE /\ city' = [city EXCEPT ![r] = parts[3]]
                  /\ pc' = [pc EXCEPT ![r] = "query"]
                  /\ UNCHANGED w
  /\ UNCHANGED <<file, fileRead, apiConfig, urls, resp, data, err>>

\* A variant of the config step that takes the key another invocation in
\* flight has loaded, as a process-wide cache would.
QueryLoadConfigCached(r) ==
  /\ pc[r] = "query"
  /\ fileRead' = [fileRead EXCEPT ![r] = Append(@, file)]
  /\ LET cached == {q \in Req : pc[q] \in {"get", "decode"}}
         res == loadApiConfig(file)
     IN IF res.err # NoErr
        THEN /\ data' = [data EXCEPT ![r] = ZeroWeatherData]
             /\ err' = [err EXCEPT ![r] = res.err]
             /\ pc' = [pc EXCEPT ![r] = "return"]
             /\ UNCHANGED apiConfig
        ELSE /\ apiConfig' = [apiConfig EXCEPT ![r] =
                                IF cached = {} THEN res.c
                                ELSE apiConfig[CHOOSE q \in cached : TRUE]]
             /\ pc' = [pc EXCEPT ![r] = "get"]
             /\ UNCHANGED <<data, err>>
  /\ UNCHANGED <<file, path, city, urls, resp, w>>

\* query: loadApiConfig(".apiConfig") and its error return.
QueryLoadConfig(r) ==
  /\ pc[r] = "query"
  /\ fileRead' = [fileRead EXCEPT ![r] = Append(@, file)]
  /\ LET res == loadApiConfig(file)
     IN IF res.err # NoErr
        THEN /\ data' = [data EXCEPT ![r] = ZeroWeatherData]
             /\ err' = [err EXCEPT ![r] = res.err]
             /\ pc' = [pc EXCEPT ![r] = "return"]
             /\ UNCHANGED apiConfig
        ELSE /\ apiConfig' = [apiConfig EXCEPT ![r] = res.c]
             /\ pc' = [pc EXCEPT ![r] = "get"]
             /\ UNCHANGED <<data, err>>
  /\ UNCHANGED <<file, path, city, urls, resp, w>>

\* "http://api.Openweathermap.org/data/2.5/weather?q="
BaseUrl ==
  <<"h", "t", "t", "p", ":", "/", "/", "a", "p", "i", ".",
    "O", "p", "e", "n", "w", "e", "a", "t", "h", "e", "r", "m", "a", "p", ".", "o", "r", "g",
    "/", "d", "a", "t", "a", "/", "2", ".", "5", "/",
    "w", "e", "a", "t", "h", "e", "r", "?", "q", "=">>
AppidParam == <<"&", "a", "p", "p", "i", "d", "=">>

\* The URL query builds for a city and a key.
Url(c, key) == BaseUrl \o c \o AppidParam \o key

\* A variant of the outbound call that calls again after a transport error.
QueryGetRetrying(r) ==
  /\ pc[r] = "get"
  /\ urls' = [urls EXCEPT ![r] = Append(@, Url(city[r], apiConfig[r].OpenWeatherMapApiKey))]
  /\ \/ UNCHANGED <<pc, resp, data, err>>
     \/ \E re \in Replies :
          /\ resp' = [resp EXCEPT ![r] = [status |-> re.status, body |-> re.body, open |-> TRUE]]
          /\ pc' = [pc EXCEPT ![r] = "decode"]
          /\ UNCHANGED <<data, err>>
  /\ UNCHANGED <<file, path, city, fileRead, apiConfig, w>>

\* query: http.Get and its error return.  The transport fails or the
\* upstream answers; the answer's Body is open from here on.
QueryGet(r) ==
  /\ pc[r] = "get"
  /\ urls' = [urls EXCEPT ![r] = Append(@, Url(city[r], apiConfig[r].OpenWeatherMapApiKey))]
  /\ \/ /\ data' = [data EXCEPT ![r] = ZeroWeatherData]
        /\ err' = [err EXCEPT ![r] = UrlError]
        /\ pc' = [pc EXCEPT ![r] = "return"]
        /\ UNCHANGED resp
     \/ \E re \in Replies :
          /\ resp' = [resp EXCEPT ![r] = [status |-> re.status, body |-> re.body, open |-> TRUE]]
          /\ pc' = [pc EXCEPT ![r] = "decode"]
          /\ UNCHANGED <<data, err>>
  /\ UNCHANGED <<file, path, city, fileRead, apiConfig, w>>

\* A variant of the deferred Close that runs on the successful return only.
CloseOnSuccess(body, e) == [body EXCEPT !.open = (e # NoErr)]

\* defer resp.Body.Close(): runs when query returns, whatever it returns.
DeferredClose(body, e) == [body EXCEPT !.open = FALSE]

\* A variant of the decode step whose d is one package-level variable.
QueryDecodeShared(r) ==
  /\ pc[r] = "decode"
  /\ LET res == Decode(resp[r].body)
     IN /\ data' = [q \in Req |-> IF res.err # NoErr THEN ZeroWeatherData ELSE res.d]
        /\ err' = [err EXCEPT ![r] = res.err]
        /\ resp' = [resp EXCEPT ![r] = DeferredClose(@, res.err)]
  /\ pc' = [pc EXCEPT ![r] = "return"]
  /\ UNCHANGED <<file, path, city, fileRead, apiConfig, urls, w>>

\* query: decode the body into a fresh d, return, and run the deferred Close.
QueryDecode(r) ==
  /\ pc[r] = "decode"
  /\ LET res == Decode(resp[r].body)
     IN /\ data' = [data EXCEPT ![r] = IF res.err # NoErr THEN ZeroWeatherData ELSE res.d]
        /\ err' = [err EXCEPT ![r] = res.err]
        /\ resp' = [resp EXCEPT ![r] = DeferredClose(@, res.err)]
  /\ pc' = [pc EXCEPT ![r] = "return"]
  /\ UNCHANGED <<file, path, city, fileRead, apiConfig, urls, w>>

\* What the handler writes for the (data, err) that query returned.
Reply(d, e) ==
  IF e # NoErr THEN HttpError(e.msg, StatusInternalServerError)
  ELSE [status |-> StatusOK, ctype |-> ApplicationJson, text |-> "", json |-> Encode(d)]

\* The handler after query returned.
Respond(r) ==
  /\ pc[r] = "return"
  /\ w' = [w EXCEPT ![r] = Reply(data[r], err[r])]
  /\ pc' = [pc EXCEPT ![r] = "done"]
  /\ UNCHANGED <<file, path, city, fileRead, apiConfig, urls, resp, data, err>>

\* The handler has returned; the next request is served by a new invocation,
\* whose locals start afresh.
NextRequest(r) ==
  /\ pc[r] = "done"
  /\ pc' = [pc EXCEPT ![r] = "idle"]
  /\ path' = [path EXCEPT ![r] = <<>>]
  /\ city' = [city EXCEPT ![r] = <<>>]
  /\ fileRead' = [fileRead EXCEPT ![r] = <<>>]
  /\ apiConfig' = [apiConfig EXCEPT ![r] = ZeroApiConfig]
  /\ urls' = [urls EXCEPT ![r] = <<>>]
  /\ resp' = [resp EXCEPT ![r] = NoResp]
  /\ data' = [data EXCEPT ![r] = ZeroWeatherData]
  /\ err' = [err EXCEPT ![r] = NoErr]
  /\ w' = [w EXCEPT ![r] = NoReply]
  /\ UNCHANGED file

\* Somebody outside the server creates, rewrites or removes .apiConfig.
WriteConfigFile ==
  /\ \E f \in ConfigFiles \ {file} : file' = f
  /\ UNCHANGED <<pc, path, city, fileRead, apiConfig, urls, resp, data, err, w>>

Next ==
  \/ \E r \in Req : Hello(r)
  \/ \E r \in Req : WeatherHandler(r)
  \/ \E r \in Req : QueryLoadConfig(r)
  \/ \E r \in Req : QueryGet(r)
  \/ \E r \in Req : QueryDecode(r)
  \/ \E r \in Req : Respond(r)
  \/ \E r \in Req : NextRequest(r)
  \/ WriteConfigFile

Spec == Init /\ [][Next]_vars

----------------------------------------------------------------------------
(* Properties *)

\* The city segment of a /weather/ path: what follows the prefix.
CityOf(p) == SubSeq(p, Len(WeatherPrefix) + 1, Len(p))

\* Invocations of the /weather/ handler that have taken their first step.
Weather == {r \in Req : pc[r] # "idle" /\ path[r] \in WeatherPaths}

\* Invocations in which query has been called, has read the file, has got
\* past loadApiConfig, and in which http.Get has returned a response.
Queried == {r \in Weather : pc[r] \in {"query", "get", "decode", "return"} \/ fileRead[r] # <<>>}
HasRead == {r \in Req : fileRead[r] # <<>>}
Loaded == {r \in Req : pc[r] \in {"get", "decode"} \/ urls[r] # <<>>}
Answered == {r \in Req : resp[r].status # 0}

\* C1: a /weather/ request with an empty city is answered 400 "City name not
\* provided" with no read of the config file and no outbound call; with any
\* other city c, query is called with c.
C1_EmptyCity400ElseQuery ==
  \A r \in Weather :
    IF CityOf(path[r]) = <<>>
    THEN /\ pc[r] = "done"
         /\ w[r] = [status |-> 400, ctype |-> TextPlain,
                    text |-> "City name not provided\n", json |-> JNull]
         /\ fileRead[r] = <<>>
         /\ urls[r] = <<>>
    ELSE /\ r \in Queried
         /\ city[r] = CityOf(path[r])
         /\ w[r].status # 400

C1_Witness ==
  \E r, q \in Req :
    /\ pc[r] = "done" /\ path[r] = WeatherPrefix /\ w[r].status = 400
    /\ pc[q] = "get" /\ city[q] = <<"a", "/", "b">>

\* C2: when the config file is absent, the request ends with status 500
\* carrying the read error's message and makes no outbound call.
C2_MissingConfig500NoCall ==
  \A r \in HasRead :
    ~fileRead[r][1].exists =>
      /\ urls[r] = <<>>
      /\ resp[r] = NoResp
      /\ pc[r] \in {"return", "done"}
      /\ err[r].kind = "PathError"
      /\ pc[r] = "done" =>
           w[r] = [status |-> 500, ctype |-> TextPlain,
                   text |-> "open .apiConfig: no such file or directory\n", json |-> JNull]

C2_Witness ==
  \E r \in Req :
    /\ pc[r] = "done" /\ city[r] # <<>>
    /\ fileRead[r] = <<Missing>> /\ w[r].status = 500

\* The value of the first pair of an object with exactly this key, else null.
Member(v, key) ==
  IF v.t = "object" /\ \E i \in 1..Len(v.kv) : v.kv[i][1] = key
  THEN v.kv[CHOOSE i \in 1..Len(v.kv) :
              v.kv[i][1] = key /\ \A j \in 1..(i - 1) : v.kv[j][1] # key][2]
  ELSE JNull

\* A body of the shape the upstream documents: an object with a string name
\* and a number main.temp.
HasExpectedFields(body) ==
  /\ body.valid
  /\ Member(body.v, "name").t = "string"
  /\ Member(Member(body.v, "main"), "temp").t = "number"

\* C3: a body that is not JSON or lacks the fields name and main.temp makes
\* query fail with a decode error and the handler answer 500, never 200.
C3_MismatchedBody500 ==
  \A r \in Answered :
    (pc[r] \in {"return", "done"} /\ ~HasExpectedFields(resp[r].body)) =>
      /\ err[r].kind \in {"SyntaxError", "UnmarshalTypeError"}
      /\ pc[r] = "done" => w[r].status = 500

\* C4: with an empty API key, a failed upstream call or a non-success upstream
\* status ends the request with status 500, never with 200.
C4_BadKeyIsFailure ==
  \A r \in Req :
    ( /\ pc[r] = "done" /\ urls[r] # <<>>
      /\ apiConfig[r].OpenWeatherMapApiKey = <<>>
      /\ resp[r].status # 200 ) => w[r].status = 500

\* C5: an upstream response body is open only while query decodes it: it is
\* closed once query has returned, whatever query returned, so that no body
\* is open when all handlers have returned.
C5_BodyClosedOnReturn ==
  /\ \A r \in Req : resp[r].open => pc[r] = "decode"
  /\ (\A r \in Req : pc[r] \in {"idle", "done"}) =>
       Cardinality({r \in Req : resp[r].open}) = 0

C5_Witness ==
  \E r, q \in Answered :
    /\ pc[r] = "done" /\ err[r] # NoErr /\ ~resp[r].open
    /\ pc[q] = "done" /\ err[q] = NoErr /\ ~resp[q].open

\* C6: an invocation of query calls http.Get at most once, also after a
\* transport error or a decode error.
C6_AtMostOneGet ==
  \A r \in Req : Len(urls[r]) <= 1

C6_Witness ==
  \E r, q \in Req :
    /\ pc[r] = "done" /\ err[r].kind = "UrlError" /\ Len(urls[r]) = 1
    /\ pc[q] = "done" /\ err[q].kind = "SyntaxError" /\ q \in Answered /\ Len(urls[q]) = 1

\* C7: for an upstream body holding name and main.temp among any other
\* fields, the handler answers 200 with Content-Type JSON and a body of just
\* name and main.temp with the upstream's values.
C7_RoundTripDropsExtras ==
  \A r \in Answered :
    (pc[r] = "done" /\ HasExpectedFields(resp[r].body)) =>
      w[r] = [status |-> 200, ctype |-> ApplicationJson, text |-> "",
              json |-> JObj(<< <<"name", Member(resp[r].body.v, "name")>>,
                               <<"main", JObj(<< <<"temp",
                                  Member(Member(resp[r].body.v, "main"), "temp")>> >>)>> >>)]

\* The handler run alone on r's path, on the file r read and on the answer r
\* got from the upstream.
Alone(r) ==
  LET parts == SplitN(path[r], "/", 3)
  IN IF Len(parts) < 3 \/ parts[3] = <<>>
     THEN HttpError("City name not provided", StatusBadRequest)
     ELSE LET c == loadApiConfig(fileRead[r][1])
          IN IF c.err # NoErr THEN HttpError(c.err.msg, StatusInternalServerError)
             ELSE IF resp[r].status = 0 THEN HttpError(UrlError.msg, StatusInternalServerError)
             ELSE LET res == Decode(resp[r].body)
                  IN IF res.err # NoErr THEN HttpError(res.err.msg, StatusInternalServerError)
                     ELSE [status |-> StatusOK, ctype |-> ApplicationJson, text |-> "",
                           json |-> Encode(res.d)]

\* C8: under every interleaving, the response of a /weather request is the
\* one the handler gives when run alone on the same path, file content and
\* upstream answer.
C8_NoInterference ==
  \A r \in Weather : pc[r] = "done" => w[r] = Alone(r)

C8_Witness ==
  \E r, q \in Answered :
    /\ city[r] # city[q]
    /\ pc[r] = "done" /\ w[r].status = 200
    /\ pc[q] = "return" /\ err[q] # NoErr

\* A config file of the documented shape: an object with a string
\* OpenWeatherMapApiKey.
ExpectedShape(bytes) ==
  bytes.valid /\ Member(bytes.v, "OpenWeatherMapApiKey").t = "string"

\* C9: loadApiConfig fails with an I/O error on a missing file, with a parse
\* error on content that is not JSON or not of the expected shape, and
\* succeeds only on content of the expected shape.
C9_LoadFailsUnlessExpectedShape ==
  \A r \in HasRead :
    LET f == fileRead[r][1]
    IN /\ ~f.exists => (r \notin Loaded /\ err[r].kind = "PathError")
       /\ (f.exists /\ ~ExpectedShape(f.bytes)) =>
            (r \notin Loaded /\ err[r].kind \in {"SyntaxError", "UnmarshalTypeError"})
       /\ r \in Loaded => (f.exists /\ ExpectedShape(f.bytes))

\* C10: an invocation of query reads the config file once, before its
\* outbound call, and sends the key of the content it read itself.
C10_KeyReadInSameInvocation ==
  \A r \in Req :
    /\ Len(fileRead[r]) <= 1
    /\ r \in Loaded => Len(fileRead[r]) = 1
    /\ urls[r] # <<>> =>
         urls[r][1] = Url(city[r], UnmarshalApiConfig(fileRead[r][1].bytes).c.OpenWeatherMapApiKey)
    /\ r \in Loaded =>
         apiConfig[r] = UnmarshalApiConfig(fileRead[r][1].bytes).c

C10_Witness ==
  \E r, q \in Req :
    /\ urls[r] # <<>> /\ urls[q] # <<>>
    /\ fileRead[r] # fileRead[q]
    /\ urls[r][1] = Url(city[r], GoodKey)
    /\ urls[q][1] = Url(city[q], <<>>)

====
